---- MODULE Spec2Model ----
(***************************************************************************)
(* Blogicum (blog/views.py): the publication-visibility rules of the three *)
(* feeds and of the post detail page, the ownership gates of the six       *)
(* create/update/delete views, and the pagination of the feeds.            *)
(*                                                                         *)
(* The record store (Post, Category, Comment, User) is the state; every    *)
(* view is one action that handles one whole request and leaves its        *)
(* response in resp.                                                       *)
(***************************************************************************)
EXTENDS Integers, Sequences, FiniteSets, TLC

VARIABLES
    posts,          \* Post table: id -> [author, is_published, pub_date, category]
    comments,       \* Comment table: id -> [author, post, text]
    catPublished,   \* Category.is_published, by slug
    now,            \* timezone.now()
    nextPostId,     \* next primary key of the Post table (keys are not reused)
    nextCommentId,  \* next primary key of the Comment table
    postCreator,    \* history: the viewer whose request stored each post
    commentCreator, \* history: the viewer whose request stored each comment
    resp            \* the response to the last request

vars == <<posts, comments, catPublished, now, nextPostId, nextCommentId,
          postCreator, commentCreator, resp>>

store == <<posts, comments, catPublished, now, nextPostId, nextCommentId,
           postCreator, commentCreator>>

----------------------------------------------------------------------------
(* Bounds *)

MaxPosts == 2

MaxComments == 1

MaxTime == 1

MaxFeed == 21

MaxPageReq == 4

(* views.py:17 *)
POSTS_LIMIT == 10

----------------------------------------------------------------------------
(* Identities and inputs *)

Users == {"alice", "admin"}

Anonymous == "anonymous"

Viewers == Users \cup {Anonymous}

\* request.user.is_authenticated
is_authenticated(user) == user \in Users

\* request.user.is_staff (AnonymousUser.is_staff is False)
is_staff(user) == user = "admin"

\* usernames a profile URL may carry: the stored ones and one that is not stored
Usernames == Users \cup {"ghost"}

Categories == {"travel", "food"}

\* slugs a category URL may carry
Slugs == Categories \cup {"nocat"}

\* the values of the clock
Times == 0 .. MaxTime

\* publication dates a post form may carry: the first and the last value of
\* the clock, so a post is dated in the past, at now, or in the future
PubDates == {0, MaxTime}

Texts == {"t1", "t2"}

PostIds == 1 .. MaxPosts

CommentIds == 1 .. MaxComments

\* submitted post form data; author is a value the caller may try to pass
PostData == [author : Users, is_published : BOOLEAN, pub_date : PubDates,
             category : Categories]

CommentData == [author : Users, text : Texts]

\* request.GET.get("page"): absent, an integer literal, "last", or other text
PageParams == {[kind |-> "none", n |-> 0], [kind |-> "last", n |-> 0],
               [kind |-> "junk", n |-> 0]}
              \cup [kind : {"int"}, n : (0 - 1) .. MaxPageReq]

NoPage == [kind |-> "none", n |-> 0]

NoPost == [author |-> "", is_published |-> FALSE, pub_date |-> 0 - 1,
           category |-> ""]

NoComment == [author |-> "", post |-> 0, text |-> ""]

NoResp == [op |-> "none", viewer |-> Anonymous, post |-> 0, comment |-> 0,
           name |-> "", method |-> "", supplied |-> "", param |-> NoPage,
           outcome |-> "none",
           to |-> 0, queryset |-> {}, page |-> <<>>, number |-> 0,
           beforePost |-> NoPost, beforeComment |-> NoComment]

----------------------------------------------------------------------------
(* Querysets *)

\* a variant that leaves out the category filter
get_published_posts_queryset_NoCategory ==
    {p \in DOMAIN posts : posts[p].is_published /\ posts[p].pub_date <= now}

\* get_published_posts_queryset (views.py:33-49)
get_published_posts_queryset ==
    {p \in DOMAIN posts : /\ posts[p].is_published
                          /\ posts[p].pub_date <= now
                          /\ catPublished[posts[p].category]}

\* a variant without the branch for the profile's owner
ProfileQueryset_NoOwnerBranch(viewer, user_obj) ==
    {p \in DOMAIN posts : /\ posts[p].author = user_obj
                          /\ posts[p].is_published
                          /\ posts[p].pub_date <= now
                          /\ catPublished[posts[p].category]}

\* ProfileListView.get_queryset (views.py:78-87), user_obj found
ProfileQueryset(viewer, user_obj) ==
    IF viewer = user_obj
    THEN {p \in DOMAIN posts : posts[p].author = user_obj}
    ELSE {p \in DOMAIN posts : /\ posts[p].author = user_obj
                               /\ posts[p].is_published
                               /\ posts[p].pub_date <= now
                               /\ catPublished[posts[p].category]}

\* a variant that looks the category up by slug alone
CategoryFound_AnyFlag(slug) == slug \in Categories

\* get_object_or_404(Category, slug=cat_slug, is_published=True)
CategoryFound(slug) == slug \in Categories /\ catPublished[slug]

\* CategoryListView.get_queryset (views.py:118-122), category found
CategoryQueryset(category) ==
    {p \in DOMAIN posts : /\ posts[p].category = category
                          /\ posts[p].is_published
                          /\ posts[p].pub_date <= now}

\* a variant that forgets the category of the post
DetailAllowed_NoCategory(viewer, obj) ==
    \/ viewer = obj.author
    \/ obj.is_published /\ obj.pub_date <= now

\* PostDetailView.get_object (views.py:150-153): TRUE when no Http404 is raised
DetailAllowed(viewer, obj) ==
    \/ viewer = obj.author
    \/ /\ obj.is_published
       /\ obj.pub_date <= now
       /\ catPublished[obj.category]

\* order_by("-pub_date"): newest first; equal dates in primary-key order
Newer(p, q) ==
    \/ posts[p].pub_date > posts[q].pub_date
    \/ posts[p].pub_date = posts[q].pub_date /\ p <= q

RECURSIVE OrderByPubDate(_)
OrderByPubDate(S) ==
    IF S = {} THEN <<>>
    ELSE LET first == CHOOSE p \in S : \A q \in S : Newer(p, q)
         IN  <<first>> \o OrderByPubDate(S \ {first})

----------------------------------------------------------------------------
(* Pagination *)

Min(a, b) == IF a < b THEN a ELSE b

\* Paginator.num_pages with allow_empty_first_page: at least one page
num_pages(count) ==
    IF count = 0 THEN 1 ELSE (count + POSTS_LIMIT - 1) \div POSTS_LIMIT

\* Paginator.page(number).object_list for a valid number
PageOf(seq, number) ==
    SubSeq(seq, (number - 1) * POSTS_LIMIT + 1,
           Min(number * POSTS_LIMIT, Len(seq)))

\* a variant that clamps a number below 1 to the first page
get_page_Clamp(count, param) ==
    IF param.kind # "int" \/ param.n < 1 THEN 1
    ELSE IF param.n > num_pages(count) THEN num_pages(count)
    ELSE param.n

\* Paginator(queryset, POSTS_LIMIT).get_page(page_number) (views.py:27-29):
\* text that is no integer gives page 1, an integer outside 1..num_pages
\* (below or above) gives the last page
get_page(count, param) ==
    IF param.kind # "int" THEN 1
    ELSE IF param.n < 1 \/ param.n > num_pages(count) THEN num_pages(count)
    ELSE param.n

\* ListView with paginate_by = POSTS_LIMIT (views.py:55, 111): the page number
\* served, or 0 when paginate_queryset raises Http404
paginate_queryset(count, param) ==
    CASE param.kind = "none" -> 1
      [] param.kind = "last" -> num_pages(count)
      [] param.kind = "junk" -> 0
      [] param.kind = "int"  ->
            IF param.n < 1 \/ param.n > num_pages(count) THEN 0 ELSE param.n

----------------------------------------------------------------------------
(* Read views *)

\* requests are handled one at a time: none is being answered
Idle == resp = NoResp

Rendered(r, qs, number) ==
    [r EXCEPT !.outcome = "ok", !.queryset = qs, !.number = number,
              !.page = PageOf(OrderByPubDate(qs), number)]

NotFound(r) == [r EXCEPT !.outcome = "not_found"]

\* index (views.py:20-30)
Index(viewer, param) ==
    /\ Idle
    /\ LET r  == [NoResp EXCEPT !.op = "index", !.viewer = viewer,
                                !.param = param]
           qs == get_published_posts_queryset
       IN  resp' = Rendered(r, qs, get_page(Cardinality(qs), param))
    /\ UNCHANGED store

\* ProfileListView (views.py:61-99)
Profile(viewer, username, param) ==
    /\ Idle
    /\ LET r  == [NoResp EXCEPT !.op = "profile", !.viewer = viewer,
                                !.name = username, !.param = param]
           qs == ProfileQueryset(viewer, username)
           n  == paginate_queryset(Cardinality(qs), param)
       IN  resp' = IF username \notin Users THEN NotFound(r)
                   ELSE IF n = 0 THEN NotFound(r)
                   ELSE Rendered(r, qs, n)
    /\ UNCHANGED store

\* CategoryListView (views.py:102-131)
CategoryFeed(viewer, slug, param) ==
    /\ Idle
    /\ LET r  == [NoResp EXCEPT !.op = "category", !.viewer = viewer,
                                !.name = slug, !.param = param]
           qs == CategoryQueryset(slug)
           n  == paginate_queryset(Cardinality(qs), param)
       IN  resp' = IF ~CategoryFound(slug) THEN NotFound(r)
                   ELSE IF n = 0 THEN NotFound(r)
                   ELSE Rendered(r, qs, n)
    /\ UNCHANGED store

\* PostDetailView (views.py:134-160)
PostDetail(viewer, post_id) ==
    /\ Idle
    /\ LET r == [NoResp EXCEPT !.op = "post_detail", !.viewer = viewer,
                               !.post = post_id]
       IN  resp' = IF post_id \notin DOMAIN posts THEN NotFound(r)
                   ELSE IF ~DetailAllowed(viewer, posts[post_id])
                        THEN NotFound(r)
                   ELSE [r EXCEPT !.outcome = "ok", !.queryset = {post_id}]
    /\ UNCHANGED store

----------------------------------------------------------------------------
(* Forms *)

\* PostForm: the model fields a submitted post form writes; author is not one
PostFormSave(instance, data) ==
    [instance EXCEPT !.is_published = data.is_published,
                     !.pub_date = data.pub_date,
                     !.category = data.category]

\* CommentForm: the only field is the text
CommentFormSave(instance, data) == [instance EXCEPT !.text = data.text]

\* Comment.post is a foreign key: the comments of a deleted post go with it
CascadeComments(post_id) == {c \in DOMAIN comments : comments[c].post # post_id}

Restrict(f, S) == [x \in S |-> f[x]]

----------------------------------------------------------------------------
(* Mutating views: one submitted (POST) request each.  The response keeps *)
(* the targeted record as it was stored when the request arrived.        *)

PostAt(post_id) == IF post_id \in DOMAIN posts THEN posts[post_id] ELSE NoPost

CommentAt(comment_id) ==
    IF comment_id \in DOMAIN comments THEN comments[comment_id] ELSE NoComment

RedirectLogin(r) == [r EXCEPT !.outcome = "redirect_login"]

RedirectDetail(r, post_id) ==
    [r EXCEPT !.outcome = "redirect_post_detail", !.to = post_id]

RedirectProfile(r) == [r EXCEPT !.outcome = "redirect_profile"]

\* a variant that keeps the author the caller passed
PostCreateRecord_Supplied(viewer, data) ==
    [PostFormSave(NoPost, data) EXCEPT !.author = data.author]

\* PostCreateView.form_valid (views.py:175-179): the record saved
PostCreateRecord(viewer, data) ==
    [PostFormSave(NoPost, data) EXCEPT !.author = viewer]

\* PostCreateView (views.py:163-184)
PostCreate(viewer, data) ==
    /\ Idle
    /\ LET r == [NoResp EXCEPT !.op = "post_create", !.viewer = viewer,
                               !.supplied = data.author]
       IN  IF ~is_authenticated(viewer)
           THEN /\ resp' = RedirectLogin(r)
                /\ UNCHANGED store
           ELSE /\ nextPostId <= MaxPosts
                /\ posts' = posts @@ (nextPostId :> PostCreateRecord(viewer, data))
                /\ postCreator' = postCreator @@ (nextPostId :> viewer)
                /\ nextPostId' = nextPostId + 1
                /\ resp' = RedirectProfile([r EXCEPT !.post = nextPostId])
                /\ UNCHANGED <<comments, catPublished, now, nextCommentId,
                               commentCreator>>

\* PostUpdateView.dispatch (views.py:203-207): TRUE when the request is passed on
PostUpdateAllowed(viewer, post) == post.author = viewer

\* PostUpdateView (views.py:187-212)
PostUpdate(viewer, post_id, data) ==
    /\ Idle
    /\ LET r == [NoResp EXCEPT !.op = "post_update", !.viewer = viewer,
                               !.post = post_id,
                               !.beforePost = PostAt(post_id)]
       IN  IF post_id \notin DOMAIN posts
           THEN /\ resp' = NotFound(r)
                /\ UNCHANGED store
           ELSE LET post == posts[post_id]
                IN  IF ~PostUpdateAllowed(viewer, post)
                    THEN /\ resp' = RedirectDetail(r, post_id)
                         /\ UNCHANGED store
                    ELSE IF ~is_authenticated(viewer)
                    THEN /\ resp' = RedirectLogin(r)
                         /\ UNCHANGED store
                    ELSE /\ posts' = [posts EXCEPT ![post_id] = PostFormSave(@, data)]
                         /\ resp' = RedirectDetail(r, post_id)
                         /\ UNCHANGED <<comments, catPublished, now, nextPostId,
                                        nextCommentId, postCreator, commentCreator>>

\* a variant without the staff override
PostDeleteAllowed_AuthorOnly(viewer, post) == post.author = viewer

\* PostDeleteView.dispatch (views.py:228-232): TRUE when the request is passed on
PostDeleteAllowed(viewer, post) == ~(post.author # viewer /\ ~is_staff(viewer))

\* PostDeleteView (views.py:215-237)
PostDelete(viewer, post_id) ==
    /\ Idle
    /\ LET r == [NoResp EXCEPT !.op = "post_delete", !.viewer = viewer,
                               !.post = post_id,
                               !.beforePost = PostAt(post_id)]
       IN  IF post_id \notin DOMAIN posts
           THEN /\ resp' = NotFound(r)
                /\ UNCHANGED store
           ELSE LET post == posts[post_id]
                IN  IF ~PostDeleteAllowed(viewer, post)
                    THEN /\ resp' = RedirectDetail(r, post_id)
                         /\ UNCHANGED store
                    ELSE IF ~is_authenticated(viewer)
                    THEN /\ resp' = RedirectLogin(r)
                         /\ UNCHANGED store
                    ELSE /\ posts' = Restrict(posts, DOMAIN posts \ {post_id})
                         /\ postCreator' =
                               Restrict(postCreator, DOMAIN posts \ {post_id})
                         /\ comments' = Restrict(comments, CascadeComments(post_id))
                         /\ commentCreator' =
                               Restrict(commentCreator, CascadeComments(post_id))
                         /\ resp' = RedirectProfile(r)
                         /\ UNCHANGED <<catPublished, now, nextPostId,
                                        nextCommentId>>

\* CommentCreateView.form_valid (views.py:252-257): the record saved
CommentCreateRecord(viewer, post_id, data) ==
    [CommentFormSave(NoComment, data) EXCEPT !.author = viewer,
                                             !.post = post_id]

\* CommentCreateView (views.py:240-261)
CommentCreate(viewer, post_id, data) ==
    /\ Idle
    /\ LET r == [NoResp EXCEPT !.op = "comment_create", !.viewer = viewer,
                               !.post = post_id, !.supplied = data.author]
       IN  IF ~is_authenticated(viewer)
           THEN /\ resp' = RedirectLogin(r)
                /\ UNCHANGED store
           ELSE IF post_id \notin DOMAIN posts
           THEN /\ resp' = NotFound(r)
                /\ UNCHANGED store
           ELSE /\ nextCommentId <= MaxComments
                /\ comments' = comments @@
                      (nextCommentId :> CommentCreateRecord(viewer, post_id, data))
                /\ commentCreator' = commentCreator @@ (nextCommentId :> viewer)
                /\ nextCommentId' = nextCommentId + 1
                /\ resp' = RedirectDetail([r EXCEPT !.comment = nextCommentId],
                                          post_id)
                /\ UNCHANGED <<posts, catPublished, now, nextPostId, postCreator>>

\* a variant with a staff override
CommentUpdateAllowed_Staff(viewer, comment) ==
    comment.author = viewer \/ is_staff(viewer)

\* CommentUpdateView.get_object (views.py:277-282): TRUE when no Http404 is raised
CommentUpdateAllowed(viewer, comment) == ~(comment.author # viewer)

\* CommentUpdateView (views.py:264-287); method is GET (show the form) or POST
CommentUpdate(viewer, comment_id, method, data) ==
    /\ Idle
    /\ LET r == [NoResp EXCEPT !.op = "comment_update", !.viewer = viewer,
                               !.comment = comment_id, !.method = method,
                               !.beforeComment = CommentAt(comment_id)]
       IN  IF ~is_authenticated(viewer)
           THEN /\ resp' = RedirectLogin(r)
                /\ UNCHANGED store
           ELSE IF comment_id \notin DOMAIN comments
           THEN /\ resp' = NotFound(r)
                /\ UNCHANGED store
           ELSE LET comment == comments[comment_id]
                    rb      == [r EXCEPT !.post = comment.post]
                IN  IF ~CommentUpdateAllowed(viewer, comment)
                    THEN /\ resp' = NotFound(rb)
                         /\ UNCHANGED store
                    ELSE IF method = "GET"
                    THEN /\ resp' = [rb EXCEPT !.outcome = "ok"]
                         /\ UNCHANGED store
                    ELSE /\ comments' = [comments EXCEPT ![comment_id] =
                                            CommentFormSave(@, data)]
                         /\ resp' = RedirectDetail(rb, comment.post)
                         /\ UNCHANGED <<posts, catPublished, now, nextPostId,
                                        nextCommentId, postCreator, commentCreator>>

\* a variant that also lets the author of the parent post delete
CommentDeleteAllowed_PostAuthor(viewer, comment) ==
    comment.author = viewer \/ posts[comment.post].author = viewer

\* CommentDeleteView.dispatch (views.py:303-307): TRUE when the request is passed on
CommentDeleteAllowed(viewer, comment) == ~(comment.author # viewer)

\* CommentDeleteView (views.py:290-312)
CommentDelete(viewer, comment_id) ==
    /\ Idle
    /\ LET r == [NoResp EXCEPT !.op = "comment_delete", !.viewer = viewer,
                               !.comment = comment_id,
                               !.beforeComment = CommentAt(comment_id)]
       IN  IF comment_id \notin DOMAIN comments
           THEN /\ resp' = NotFound(r)
                /\ UNCHANGED store
           ELSE LET comment == comments[comment_id]
                    rb      == [r EXCEPT !.post = comment.post]
                IN  IF ~CommentDeleteAllowed(viewer, comment)
                    THEN /\ resp' = RedirectDetail(rb, comment.post)
                         /\ UNCHANGED store
                    ELSE IF ~is_authenticated(viewer)
                    THEN /\ resp' = RedirectLogin(rb)
                         /\ UNCHANGED store
                    ELSE /\ comments' =
                               Restrict(comments, DOMAIN comments \ {comment_id})
                         /\ commentCreator' =
                               Restrict(commentCreator,
                                        DOMAIN comments \ {comment_id})
                         /\ resp' = RedirectDetail(rb, comment.post)
                         /\ UNCHANGED <<posts, catPublished, now, nextPostId,
                                        nextCommentId, postCreator>>

----------------------------------------------------------------------------
(* The environment: the admin site and the clock *)

\* CategoryAdmin (admin.py:6-19): staff publish or unpublish a category
CategorySetPublished(slug, flag) ==
    /\ Idle
    /\ catPublished[slug] # flag
    /\ catPublished' = [catPublished EXCEPT ![slug] = flag]
    /\ UNCHANGED <<resp, posts, comments, now, nextPostId, nextCommentId,
                   postCreator, commentCreator>>

\* timezone.now() moves on between requests
Tick ==
    /\ Idle
    /\ now < MaxTime
    /\ now' = now + 1
    /\ UNCHANGED <<resp, posts, comments, catPublished, nextPostId, nextCommentId,
                   postCreator, commentCreator>>

----------------------------------------------------------------------------
(* Specifications *)

Init ==
    /\ posts = [p \in {} |-> NoPost]
    /\ comments = [c \in {} |-> NoComment]
    /\ postCreator = [p \in {} |-> Anonymous]
    /\ commentCreator = [c \in {} |-> Anonymous]
    /\ catPublished \in [Categories -> BOOLEAN]
    /\ now = 0
    /\ nextPostId = 1
    /\ nextCommentId = 1
    /\ resp = NoResp

\* the response is delivered; the next request may be handled
Done ==
    /\ ~Idle
    /\ resp' = NoResp
    /\ UNCHANGED store

Reads(P) ==
    \/ \E v \in Viewers, pg \in P : Index(v, pg)
    \/ \E v \in Viewers, u \in Usernames, pg \in P : Profile(v, u, pg)
    \/ \E v \in Viewers, s \in Slugs, pg \in P : CategoryFeed(v, s, pg)
    \/ \E v \in Viewers, p \in PostIds : PostDetail(v, p)

PostWrites(V, D) ==
    \/ \E v \in V, d \in D : PostCreate(v, d)
    \/ \E v \in V, p \in PostIds, d \in D : PostUpdate(v, p, d)
    \/ \E v \in V, p \in PostIds : PostDelete(v, p)

CommentWrites(V, D) ==
    \/ \E v \in V, p \in PostIds, d \in D : CommentCreate(v, p, d)
    \/ \E v \in V, c \in CommentIds, m \in {"GET", "POST"}, d \in D :
          CommentUpdate(v, c, m, d)
    \/ \E v \in V, c \in CommentIds : CommentDelete(v, c)

Environment ==
    \/ \E s \in Categories, f \in BOOLEAN : CategorySetPublished(s, f)
    \/ Tick

\* every view with every input
Next ==
    \/ Reads({NoPage})
    \/ PostWrites(Viewers, PostData)
    \/ CommentWrites(Viewers, CommentData)
    \/ Environment
    \/ Done

Spec == Init /\ [][Next]_vars

\* The feeds and the detail page over every post, category and clock history.
\* Posts are written by the users and by no anonymous caller; every viewer,
\* staff and anonymous included, reads.
FeedPostData == {d \in PostData : d.author = "alice"}

NextFeed ==
    \/ Reads({NoPage})
    \/ PostWrites(Users, FeedPostData)
    \/ Environment
    \/ Done

SpecFeed == Init /\ [][NextFeed]_vars

\* The six create/update/delete views, called by every viewer; the post
\* form varies the published flag and the author value the caller passes.
GatePostData == {d \in PostData : d.pub_date = 0 /\ d.category = "travel"}

NextGate ==
    \/ PostWrites(Viewers, GatePostData)
    \/ CommentWrites(Viewers, CommentData)
    \/ Done

SpecGate == Init /\ [][NextGate]_vars

\* Pagination: a store of n published posts of one author and category, n up
\* to MaxFeed, read through the three feeds with every page parameter.
InitPage ==
    /\ \E n \in 0 .. MaxFeed :
          /\ posts = [p \in 1 .. n |->
                        [author |-> "alice", is_published |-> TRUE,
                         pub_date |-> 0 - p, category |-> "travel"]]
          /\ postCreator = [p \in 1 .. n |-> "alice"]
          /\ nextPostId = n + 1
    /\ comments = [c \in {} |-> NoComment]
    /\ commentCreator = [c \in {} |-> Anonymous]
    /\ catPublished = [c \in Categories |-> TRUE]
    /\ now = 0
    /\ nextCommentId = 1
    /\ resp = NoResp

NextPage ==
    \/ Reads(PageParams)
    \/ Done

SpecPage == InitPage /\ [][NextPage]_vars

----------------------------------------------------------------------------
(* Properties *)

\* publicly visible: published, not in the future, in a published category
Public(P) == P.is_published /\ P.pub_date <= now /\ catPublished[P.category]

FeedOps == {"index", "profile", "category"}

WriteOps == {"post_create", "post_update", "post_delete",
             "comment_create", "comment_update", "comment_delete"}

\* C1: the detail read of an existing post P returns P to its author whatever
\* P's published flag, publication time and category state are; to any other
\* viewer, anonymous included, it returns P exactly when P is published, its
\* publication time is not after now and its category is published, and is
\* Not-Found otherwise.
C1_PostDetailVisibility ==
    (resp.op = "post_detail" /\ resp.post \in DOMAIN posts) =>
        LET P        == posts[resp.post]
            returned == resp.outcome = "ok" /\ resp.queryset = {resp.post}
        IN  /\ resp.viewer = P.author => returned
            /\ resp.viewer # P.author =>
                  /\ returned <=> Public(P)
                  /\ ~returned => resp.outcome = "not_found"

\* the author reads an own post that is unpublished, dated in the future and
\* in an unpublished category
C1_Witness ==
    /\ resp.op = "post_detail"
    /\ resp.post \in DOMAIN posts
    /\ resp.viewer = posts[resp.post].author
    /\ ~posts[resp.post].is_published
    /\ posts[resp.post].pub_date > now
    /\ ~catPublished[posts[resp.post].category]
    /\ resp.outcome = "ok"

\* C2: the global feed offers every viewer, a post's own author included,
\* exactly the stored posts that are published, not dated after now and in a
\* published category, whatever creates, updates, deletes, category changes
\* and clock steps came before.
C2_GlobalFeedExact ==
    resp.op = "index" =>
        /\ resp.outcome = "ok"
        /\ resp.queryset = {p \in DOMAIN posts : Public(posts[p])}

\* the author of a published, past-dated post whose category is unpublished
\* reads the global feed: the post is absent while another post is offered
C2_Witness ==
    /\ resp.op = "index"
    /\ \E p \in DOMAIN posts :
          /\ posts[p].author = resp.viewer
          /\ posts[p].is_published
          /\ posts[p].pub_date <= now
          /\ ~catPublished[posts[p].category]
          /\ p \notin resp.queryset
    /\ resp.queryset # {}

\* C3: the profile feed of an existing user U holds every post of U when the
\* viewer is U, and exactly the publicly visible posts of U for any other
\* viewer; it never holds a post of another author.
C3_ProfileFeed ==
    (resp.op = "profile" /\ resp.name \in Users) =>
        /\ resp.outcome = "ok"
        /\ resp.viewer = resp.name =>
              resp.queryset = {p \in DOMAIN posts : posts[p].author = resp.name}
        /\ resp.viewer # resp.name =>
              resp.queryset = {p \in DOMAIN posts :
                                  posts[p].author = resp.name /\ Public(posts[p])}
        /\ \A p \in resp.queryset : posts[p].author = resp.name

\* a user reads the own profile, which holds an unpublished post, while a
\* post of another author is stored
C3_Witness ==
    /\ resp.op = "profile"
    /\ resp.viewer = resp.name
    /\ \E p \in resp.queryset : ~posts[p].is_published
    /\ \E p \in DOMAIN posts : posts[p].author # resp.name

\* C4: the category feed is Not-Found for every viewer when the category does
\* not exist or is unpublished; for a published category it holds exactly the
\* published, not future-dated posts of that category.
C4_CategoryFeed ==
    resp.op = "category" =>
        IF resp.name \in Categories /\ catPublished[resp.name]
        THEN /\ resp.outcome = "ok"
             /\ resp.queryset = {p \in DOMAIN posts :
                                    /\ posts[p].category = resp.name
                                    /\ posts[p].is_published
                                    /\ posts[p].pub_date <= now}
        ELSE resp.outcome = "not_found"

\* the author of a published post asks for the post's unpublished category
C4_Witness ==
    /\ resp.op = "category"
    /\ resp.name \in Categories
    /\ ~catPublished[resp.name]
    /\ \E p \in DOMAIN posts :
          /\ posts[p].category = resp.name
          /\ posts[p].author = resp.viewer
          /\ posts[p].is_published
          /\ posts[p].pub_date <= now
    /\ resp.outcome = "not_found"

\* C5: a post or comment stored by a create has the requesting viewer as its
\* author, whatever author value was submitted; so every stored record's
\* author is the viewer that created it.
C5_CreateSetsAuthor ==
    /\ (resp.op = "post_create" /\ resp.post # 0) =>
          /\ resp.post \in DOMAIN posts
          /\ posts[resp.post].author = resp.viewer
    /\ (resp.op = "comment_create" /\ resp.comment # 0) =>
          /\ resp.comment \in DOMAIN comments
          /\ comments[resp.comment].author = resp.viewer
    /\ \A p \in DOMAIN posts : posts[p].author = postCreator[p]
    /\ \A c \in DOMAIN comments : comments[c].author = commentCreator[c]

\* a post was created with another user's name submitted as its author
C5_Witness ==
    /\ resp.op = "post_create"
    /\ resp.post \in DOMAIN posts
    /\ resp.supplied # resp.viewer
    /\ posts[resp.post].author = resp.viewer

\* C6: a post is updated only by its author and deleted exactly when the
\* viewer is its author or staff; a refused update or delete leaves the post
\* stored unchanged and answers with a redirect to the post's detail page.
C6_PostGate ==
    /\ (resp.op = "post_update" /\ resp.beforePost # NoPost) =>
          /\ resp.post \in DOMAIN posts
          /\ posts[resp.post] # resp.beforePost =>
                resp.viewer = resp.beforePost.author
          /\ resp.viewer # resp.beforePost.author =>
                /\ posts[resp.post] = resp.beforePost
                /\ resp.outcome = "redirect_post_detail"
                /\ resp.to = resp.post
    /\ (resp.op = "post_delete" /\ resp.beforePost # NoPost) =>
          LET may == \/ resp.viewer = resp.beforePost.author
                     \/ is_staff(resp.viewer)
          IN  /\ resp.post \notin DOMAIN posts <=> may
              /\ ~may => /\ posts[resp.post] = resp.beforePost
                         /\ resp.outcome = "redirect_post_detail"
                         /\ resp.to = resp.post

\* a staff viewer has deleted another user's post
C6_Witness ==
    /\ resp.op = "post_delete"
    /\ resp.beforePost # NoPost
    /\ is_staff(resp.viewer)
    /\ resp.beforePost.author # resp.viewer
    /\ resp.post \notin DOMAIN posts

\* C7: a comment update requested by an authenticated viewer other than the
\* comment's author, staff included, is Not-Found for GET and for POST and
\* leaves the comment unchanged; only the author changes a comment.
C7_CommentUpdateGate ==
    (resp.op = "comment_update" /\ resp.beforeComment # NoComment) =>
        /\ resp.comment \in DOMAIN comments
        /\ (is_authenticated(resp.viewer)
            /\ resp.viewer # resp.beforeComment.author) =>
              /\ resp.outcome = "not_found"
              /\ comments[resp.comment] = resp.beforeComment
        /\ comments[resp.comment] # resp.beforeComment =>
              resp.viewer = resp.beforeComment.author

\* a staff viewer submitted a new text for another user's comment
C7_Witness ==
    /\ resp.op = "comment_update"
    /\ resp.method = "POST"
    /\ resp.beforeComment # NoComment
    /\ is_staff(resp.viewer)
    /\ resp.beforeComment.author # resp.viewer
    /\ resp.outcome = "not_found"

\* C8: a comment is deleted exactly when the viewer is its author; staff and
\* the parent post's author are refused like anyone else, and a refused
\* delete leaves the comment stored and redirects to the parent post's
\* detail page.
C8_CommentDeleteGate ==
    (resp.op = "comment_delete" /\ resp.beforeComment # NoComment) =>
        /\ resp.comment \notin DOMAIN comments <=>
              resp.viewer = resp.beforeComment.author
        /\ resp.viewer # resp.beforeComment.author =>
              /\ comments[resp.comment] = resp.beforeComment
              /\ resp.outcome = "redirect_post_detail"
              /\ resp.to = resp.beforeComment.post

\* the author of the parent post, who did not write the comment, was refused
C8_Witness ==
    /\ resp.op = "comment_delete"
    /\ resp.beforeComment # NoComment
    /\ resp.viewer # resp.beforeComment.author
    /\ resp.beforeComment.post \in DOMAIN posts
    /\ posts[resp.beforeComment.post].author = resp.viewer
    /\ resp.comment \in DOMAIN comments
    /\ resp.outcome = "redirect_post_detail"

\* C9: every create, update or delete of a post or comment requested by an
\* anonymous viewer, the targeted record existing, answers with the redirect
\* to login and changes nothing.
C9_AnonymousRedirectedToLogin ==
    (/\ resp.viewer = Anonymous
     /\ resp.op \in WriteOps
     /\ resp.op \in {"post_update", "post_delete"} => resp.beforePost # NoPost
     /\ resp.op \in {"comment_update", "comment_delete"} =>
           resp.beforeComment # NoComment) =>
        /\ resp.outcome = "redirect_login"
        /\ resp.beforePost # NoPost => PostAt(resp.post) = resp.beforePost
        /\ resp.beforeComment # NoComment =>
              CommentAt(resp.comment) = resp.beforeComment

\* the last page of a feed of count posts
LastPage(count) == IF count = 0 THEN 1 ELSE (count + 9) \div 10

\* the feed asked for exists
FeedFound ==
    /\ resp.op \in FeedOps
    /\ resp.op = "profile" => resp.name \in Users
    /\ resp.op = "category" =>
          resp.name \in Categories /\ catPublished[resp.name]

\* the posts the feed asked for holds over all its pages
FeedCount ==
    Cardinality(
        CASE resp.op = "index" -> {p \in DOMAIN posts : Public(posts[p])}
          [] resp.op = "profile" ->
                {p \in DOMAIN posts :
                    /\ posts[p].author = resp.name
                    /\ resp.viewer = resp.name \/ Public(posts[p])}
          [] resp.op = "category" ->
                {p \in DOMAIN posts : /\ posts[p].category = resp.name
                                      /\ posts[p].is_published
                                      /\ posts[p].pub_date <= now})

\* C10 as stated: in all three feeds a page holds at most 10 posts and a page
\* number outside the valid range is clamped to the nearest valid page, the
\* first page below the range and the last page above it.
C10_ClampedToNearest ==
    (FeedFound /\ resp.param.kind = "int") =>
        /\ resp.outcome = "ok"
        /\ Len(resp.page) <= 10
        /\ resp.number = IF resp.param.n < 1 THEN 1
                         ELSE IF resp.param.n > LastPage(FeedCount)
                              THEN LastPage(FeedCount)
                         ELSE resp.param.n

\* C10 amended: in all three feeds a page holds at most 10 posts; in the
\* global feed a page number outside the valid range, below it or above it,
\* gives the last page; in the profile and category feeds a page number
\* outside the valid range is Not-Found.
C10_PagesAndRange ==
    (FeedFound /\ resp.param.kind = "int") =>
        LET n       == resp.param.n
            inRange == 1 <= n /\ n <= LastPage(FeedCount)
        IN  /\ resp.outcome = "ok" =>
                  /\ Len(resp.page) <= 10
                  /\ \A i \in 1 .. Len(resp.page) : resp.page[i] \in DOMAIN posts
                  /\ resp.number \in 1 .. LastPage(FeedCount)
            /\ inRange => resp.outcome = "ok" /\ resp.number = n
            /\ (~inRange /\ resp.op = "index") =>
                  resp.outcome = "ok" /\ resp.number = LastPage(FeedCount)
            /\ (~inRange /\ resp.op # "index") => resp.outcome = "not_found"

\* the global feed of more than one page was asked for a page below the
\* first and served its last page
C10_Witness ==
    /\ resp.op = "index"
    /\ resp.param.kind = "int"
    /\ resp.param.n < 1
    /\ resp.outcome = "ok"
    /\ resp.number > 1
    /\ Len(resp.page) >= 1

====
